---- MODULE Spec2Model ----
(***************************************************************************)
(* State machine of the JackboxFHE contract (contracts/Jackbox_FHE.sol):   *)
(* access control, configuration, the batch ledger, and the asynchronous   *)
(* decryption request / callback protocol.  Every external function is one *)
(* action; a call that reverts leaves the contract storage unchanged and   *)
(* only records its outcome in `last`.  The dashboard's submitGameAnswer    *)
(* (frontend/web/src/App.tsx) is a second state machine over its own       *)
(* key-value store, one action per awaited store operation.                *)
(***************************************************************************)
EXTENDS Integers, Sequences, FiniteSets, TLC

VARIABLES
    paused,              \* bool public paused
    cooldownInterval,    \* uint256 public cooldownInterval
    maxBatchSize,        \* uint256 public maxBatchSize
    modelVersion,        \* uint256 public modelVersion
    isProvider,          \* mapping(address => bool)
    lastActionAt,        \* mapping(address => uint256)
    batches,             \* mapping(uint256 => Batch)
    decryptionContexts,  \* mapping(uint256 => DecryptionContext)
    hasSubmitted,        \* mapping(uint256 => mapping(address => bool))
    now,                 \* block.timestamp
    counterRequest,      \* the decryption oracle's next request id
    requestedHandles,    \* the handles the oracle was asked to decrypt, per request id
    accepted,            \* history: accepted submissions per (batch id, actor)
    completed,           \* history: DecryptionComplete events emitted per request id
    submitted,           \* history: the ciphertexts accepted per batch id, in order
    last,                \* the outcome of the latest call
    store,               \* the dashboard's key-value store: key -> bytes
    client               \* each dashboard client's position in submitGameAnswer

vars == <<paused, cooldownInterval, maxBatchSize, modelVersion, isProvider,
          lastActionAt, batches, decryptionContexts, hasSubmitted, now,
          counterRequest, requestedHandles, accepted, completed, submitted, last,
          store, client>>

storage == <<paused, cooldownInterval, maxBatchSize, modelVersion, isProvider,
             lastActionAt, batches, decryptionContexts, hasSubmitted>>

-----------------------------------------------------------------------------
(* Bounds of the model *)

MaxRequests == 2         \* decryption requests issued in one run
MaxTicks == 1            \* seconds that pass after deployment
MaxGames == 2            \* games each dashboard client submits

(* Program constants *)

DefaultCooldown == 5
DefaultMaxBatchSize == 10
InitialModelVersion == 1
DeployTime == 5          \* block.timestamp of the deployment, past the first cooldown

\* type(uint256).max.  Integers here end at 2^31 - 1, which stands for
\* it: timestamps stay far below, so lastActionAt + cooldownInterval overflows
\* for the same inputs as it does in 256 bits.
MaxUint256 == 2147483647

-----------------------------------------------------------------------------
(* Principals and inputs *)

owner == "owner"
Actors == {"owner", "alice"}
This == "JackboxFHE"
Oracle == "oracle"          \* the relayer of the decryption oracle
\* the senders of callbacks: the relayer, and the actors of the ledger, which
\* may or may not hold a role and may be in their cooldown
Callers == Actors \cup {Oracle}

BatchIds == {0, 1, 2}
BatchIdInputs == {1, 2}
RequestIds == 0..MaxRequests

CooldownInputs == {1, MaxUint256}
BatchSizeInputs == {0, 1, DefaultMaxBatchSize}

-----------------------------------------------------------------------------
(* The FHE runtime: an euint32 is an opaque handle (id) and the plaintext  *)
(* it encrypts (pt, never read by the contract).  Every operation gives a  *)
(* handle that is determined by the operation and its operand handles.     *)

(* A uint32 plaintext is kept as two 16-bit halves <<hi, lo>>, so that the  *)
(* homomorphic sum wraps at 2^32 as the runtime's does.                    *)

Half == 65536
Uint32(v) == <<(v \div Half) % Half, v % Half>>
add32(x, y) ==
    LET lo == x[2] + y[2]
        hi == x[1] + y[1] + (lo \div Half)
    IN <<hi % Half, lo % Half>>

Uninitialized == [id |-> <<>>, pt |-> Uint32(0)]
asEuint32(v) == [id |-> <<1, v>>, pt |-> Uint32(v)]
add(a, b) == [id |-> <<3>> \o a.id \o b.id, pt |-> add32(a.pt, b.pt)]
isInitialized(x) == x.id # <<>>
toBytes32(x) == x.id

\* a ciphertext a client encrypted: k names the encryption, v is its plaintext
MaxUint32 == <<Half - 1, Half - 1>>
ExternalInput(k, v) == [id |-> <<2, k>>, pt |-> v]
InputCiphertexts == {Uninitialized, ExternalInput(1, Uint32(2)), ExternalInput(2, MaxUint32)}

-----------------------------------------------------------------------------
(* Storage defaults *)

EmptyBatch == [isOpen |-> FALSE, numSubmissions |-> 0, aggregateScore |-> Uninitialized]
ZeroHash == <<>>
EmptyContext == [batchId |-> 0, stateHash |-> ZeroHash, processed |-> FALSE]

\* What the latest call left behind.  A call that succeeded leaves its sender and
\* the event it emitted; a call that reverted leaves only its error.
NoSender == "-"
NoCall == [op |-> "constructor", caller |-> owner, result |-> "ok", events |-> <<>>]

Call(op, sender, result, events) ==
    [op |-> op,
     caller |-> IF result = "ok" THEN sender ELSE NoSender,
     result |-> result,
     events |-> IF result = "ok" THEN events ELSE <<>>]

\* The dashboard: its clients, the ids they give their games
\* (`game-${Date.now()}-${random}`, taken as never colliding), and the keys
\* of the store they share
Clients == {"c1", "c2"}
GameIds == Clients \X (1..MaxGames)
gameKeys == <<"game_keys">>
gameKey(gameId) == <<"game_", gameId>>
StoreKeys == {gameKeys} \cup {gameKey(id) : id \in GameIds}

\* the bytes of a key that was never set, and JSON text as bytes
NoBytes == <<>>
JSONstringify(value) == <<"json", value>>
JSONparse(bytes) == bytes[2]

IdleClient == [pc |-> "idle", gameId |-> <<>>, keys |-> <<>>, games |-> {},
               count |-> 0, failed |-> FALSE]

Init ==
    /\ store = [k \in StoreKeys |-> NoBytes]
    /\ client = [c \in Clients |-> IdleClient]
    /\ paused = FALSE
    /\ cooldownInterval = DefaultCooldown
    /\ maxBatchSize = DefaultMaxBatchSize
    /\ modelVersion = InitialModelVersion
    /\ isProvider = [a \in Actors |-> a = owner]
    /\ lastActionAt = [a \in Actors |-> 0]
    /\ batches = [b \in BatchIds |-> EmptyBatch]
    /\ decryptionContexts = [r \in RequestIds |-> EmptyContext]
    /\ hasSubmitted = [b \in BatchIds |-> [a \in Actors |-> FALSE]]
    /\ now = DeployTime
    /\ counterRequest = 0
    /\ requestedHandles = [r \in RequestIds |-> <<>>]
    /\ accepted = [b \in BatchIds |-> [a \in Actors |-> 0]]
    /\ completed = [r \in RequestIds |-> 0]
    /\ submitted = [b \in BatchIds |-> <<>>]
    /\ last = NoCall

-----------------------------------------------------------------------------
(* Modifiers: each gives the error it reverts with, or "ok" *)

\* seeded fault: a provider passes for the owner
onlyOwner_OrProvider(sender) ==
    IF sender # owner /\ ~isProvider[sender] THEN "NotOwner" ELSE "ok"

onlyOwner(sender) == IF sender # owner THEN "NotOwner" ELSE "ok"

onlyProvider(sender) == IF ~isProvider[sender] THEN "NotProvider" ELSE "ok"

\* seeded fault: the pause flag is not consulted
whenNotPaused_Off == "ok"

whenNotPaused == IF paused THEN "Paused" ELSE "ok"

\* seeded fault: the cooldown still holds at the second it ends
checkCooldown_Inclusive(sender) ==
    IF lastActionAt[sender] > MaxUint256 - cooldownInterval THEN "Panic"
    ELSE IF now <= lastActionAt[sender] + cooldownInterval THEN "CooldownActive"
    ELSE "ok"

\* lastActionAt + cooldownInterval is checked arithmetic: it panics on overflow
checkCooldown(sender) ==
    IF lastActionAt[sender] > MaxUint256 - cooldownInterval THEN "Panic"
    ELSE IF now < lastActionAt[sender] + cooldownInterval THEN "CooldownActive"
    ELSE "ok"

\* the first error of a sequence of checks, in their order
RECURSIVE FirstError(_)
FirstError(checks) ==
    IF checks = <<>> THEN "ok"
    ELSE IF Head(checks) # "ok" THEN Head(checks)
    ELSE FirstError(Tail(checks))

HistoryUnchanged == UNCHANGED <<accepted, completed, submitted>>
OracleUnchanged == UNCHANGED <<counterRequest, requestedHandles>>
DashboardUnchanged == UNCHANGED <<store, client>>

-----------------------------------------------------------------------------
(* Administration and configuration *)

pause(sender) ==
    LET res == onlyOwner(sender) IN
    /\ paused' = IF res = "ok" THEN TRUE ELSE paused
    /\ last' = Call("pause", sender, res, <<"Paused", sender>>)
    /\ UNCHANGED <<cooldownInterval, maxBatchSize, modelVersion, isProvider,
                   lastActionAt, batches, decryptionContexts, hasSubmitted, now>>
    /\ HistoryUnchanged /\ OracleUnchanged /\ DashboardUnchanged

unpause(sender) ==
    LET res == onlyOwner(sender) IN
    /\ paused' = IF res = "ok" THEN FALSE ELSE paused
    /\ last' = Call("unpause", sender, res, <<"Unpaused", sender>>)
    /\ UNCHANGED <<cooldownInterval, maxBatchSize, modelVersion, isProvider,
                   lastActionAt, batches, decryptionContexts, hasSubmitted, now>>
    /\ HistoryUnchanged /\ OracleUnchanged /\ DashboardUnchanged

setCooldownIntervalResult(sender, newInterval) ==
    FirstError(<<onlyOwner(sender),
                 IF newInterval = cooldownInterval THEN "InvalidConfigValue" ELSE "ok">>)

setCooldownInterval(sender, newInterval) ==
    LET res == setCooldownIntervalResult(sender, newInterval) IN
    /\ cooldownInterval' = IF res = "ok" THEN newInterval ELSE cooldownInterval
    /\ last' = Call("setCooldownInterval", sender, res,
                    <<"CooldownUpdated", cooldownInterval, newInterval>>)
    /\ UNCHANGED <<paused, maxBatchSize, modelVersion, isProvider,
                   lastActionAt, batches, decryptionContexts, hasSubmitted, now>>
    /\ HistoryUnchanged /\ OracleUnchanged /\ DashboardUnchanged

\* seeded fault: a cap of zero is not refused
setMaxBatchSizeResult_NoZeroCheck(sender, newSize) ==
    FirstError(<<onlyOwner(sender),
                 IF newSize = maxBatchSize THEN "InvalidConfigValue" ELSE "ok">>)

setMaxBatchSizeResult(sender, newSize) ==
    FirstError(<<onlyOwner(sender),
                 IF newSize = maxBatchSize THEN "InvalidConfigValue" ELSE "ok",
                 IF newSize = 0 THEN "InvalidConfigValue" ELSE "ok">>)

setMaxBatchSize(sender, newSize) ==
    LET res == setMaxBatchSizeResult(sender, newSize) IN
    /\ maxBatchSize' = IF res = "ok" THEN newSize ELSE maxBatchSize
    /\ last' = Call("setMaxBatchSize", sender, res,
                    <<"MaxBatchSizeUpdated", maxBatchSize, newSize>>)
    /\ UNCHANGED <<paused, cooldownInterval, modelVersion, isProvider,
                   lastActionAt, batches, decryptionContexts, hasSubmitted, now>>
    /\ HistoryUnchanged /\ OracleUnchanged /\ DashboardUnchanged

\* seeded fault: adding an existing provider is not refused
addProviderResult_NoNoopCheck(sender, provider) == FirstError(<<onlyOwner(sender)>>)

addProviderResult(sender, provider) ==
    FirstError(<<onlyOwner(sender),
                 IF isProvider[provider] THEN "InvalidConfigValue" ELSE "ok">>)

addProvider(sender, provider) ==
    LET res == addProviderResult(sender, provider) IN
    /\ isProvider' = IF res = "ok" THEN [isProvider EXCEPT ![provider] = TRUE] ELSE isProvider
    /\ last' = Call("addProvider", sender, res, <<"ProviderAdded", provider>>)
    /\ UNCHANGED <<paused, cooldownInterval, maxBatchSize, modelVersion,
                   lastActionAt, batches, decryptionContexts, hasSubmitted, now>>
    /\ HistoryUnchanged /\ OracleUnchanged /\ DashboardUnchanged

removeProviderResult(sender, provider) ==
    FirstError(<<onlyOwner(sender),
                 IF ~isProvider[provider] THEN "InvalidConfigValue" ELSE "ok">>)

removeProvider(sender, provider) ==
    LET res == removeProviderResult(sender, provider) IN
    /\ isProvider' = IF res = "ok" THEN [isProvider EXCEPT ![provider] = FALSE] ELSE isProvider
    /\ last' = Call("removeProvider", sender, res, <<"ProviderRemoved", provider>>)
    /\ UNCHANGED <<paused, cooldownInterval, maxBatchSize, modelVersion,
                   lastActionAt, batches, decryptionContexts, hasSubmitted, now>>
    /\ HistoryUnchanged /\ OracleUnchanged /\ DashboardUnchanged

-----------------------------------------------------------------------------
(* The batch ledger *)

\* seeded fault: openBatch is not restricted to providers
openBatchResult_NoRoleCheck(sender) ==
    FirstError(<<whenNotPaused, checkCooldown(sender),
                 IF batches[modelVersion].isOpen THEN "InvalidBatch" ELSE "ok">>)

openBatchResult(sender) ==
    FirstError(<<onlyProvider(sender), whenNotPaused, checkCooldown(sender),
                 IF batches[modelVersion].isOpen THEN "InvalidBatch" ELSE "ok">>)

\* seeded fault: opening keeps the count and the accumulator the id had
openBatchEffect_KeepContent(batchId) == [batches EXCEPT ![batchId].isOpen = TRUE]

\* seeded fault: an id that was used before is not reopened, the next id is
\* opened instead
openBatchEffect_FreshId(batchId) ==
    LET target == IF isInitialized(batches[batchId].aggregateScore)
                  THEN batchId + 1 ELSE batchId IN
    [batches EXCEPT ![target] =
        [isOpen |-> TRUE, numSubmissions |-> 0, aggregateScore |-> asEuint32(0)]]

openBatchEffect(batchId) ==
    [batches EXCEPT ![batchId] =
        [isOpen |-> TRUE, numSubmissions |-> 0, aggregateScore |-> asEuint32(0)]]

openBatch(sender) ==
    LET batchId == modelVersion
        res == openBatchResult(sender) IN
    /\ batches' = IF res = "ok" THEN openBatchEffect(batchId) ELSE batches
    /\ lastActionAt' = IF res = "ok" THEN [lastActionAt EXCEPT ![sender] = now]
                                     ELSE lastActionAt
    /\ last' = Call("openBatch", sender, res, <<"BatchOpened", batchId, sender>>)
    /\ UNCHANGED <<paused, cooldownInterval, maxBatchSize, modelVersion, isProvider,
                   decryptionContexts, hasSubmitted, now>>
    /\ HistoryUnchanged /\ OracleUnchanged /\ DashboardUnchanged

\* seeded fault: closing does not require the batch to be open
closeBatchResult_NoOpenCheck(sender, batchId) ==
    FirstError(<<onlyProvider(sender), whenNotPaused, checkCooldown(sender)>>)

closeBatchResult(sender, batchId) ==
    FirstError(<<onlyProvider(sender), whenNotPaused, checkCooldown(sender),
                 IF ~batches[batchId].isOpen THEN "BatchClosed" ELSE "ok">>)

closeBatch(sender, batchId) ==
    LET res == closeBatchResult(sender, batchId) IN
    /\ batches' = IF res = "ok" THEN [batches EXCEPT ![batchId].isOpen = FALSE] ELSE batches
    /\ lastActionAt' = IF res = "ok" THEN [lastActionAt EXCEPT ![sender] = now]
                                     ELSE lastActionAt
    /\ last' = Call("closeBatch", sender, res, <<"BatchClosed", batchId, sender>>)
    /\ UNCHANGED <<paused, cooldownInterval, maxBatchSize, modelVersion, isProvider,
                   decryptionContexts, hasSubmitted, now, accepted, completed, submitted>>
    /\ OracleUnchanged /\ DashboardUnchanged

_requireInitialized(x, tag) ==
    IF ~isInitialized(x) THEN tag \o " not initialized" ELSE "ok"

\* seeded fault: the per-actor dedup check is missing
submitEncryptedInputResult_NoDedup(sender, batchId, encryptedScore) ==
    FirstError(<<whenNotPaused, checkCooldown(sender),
                 IF ~batches[batchId].isOpen THEN "BatchClosed" ELSE "ok",
                 IF batches[batchId].numSubmissions >= maxBatchSize THEN "BatchFull" ELSE "ok",
                 _requireInitialized(encryptedScore, "encryptedScore")>>)

\* seeded fault: the cap is compared with > instead of >=
submitEncryptedInputResult_OffByOne(sender, batchId, encryptedScore) ==
    FirstError(<<whenNotPaused, checkCooldown(sender),
                 IF ~batches[batchId].isOpen THEN "BatchClosed" ELSE "ok",
                 IF batches[batchId].numSubmissions > maxBatchSize THEN "BatchFull" ELSE "ok",
                 IF hasSubmitted[batchId][sender] THEN "InvalidBatch" ELSE "ok",
                 _requireInitialized(encryptedScore, "encryptedScore")>>)

\* seeded fault: the cap is checked before the batch's state
submitEncryptedInputResult_FullFirst(sender, batchId, encryptedScore) ==
    FirstError(<<whenNotPaused, checkCooldown(sender),
                 IF batches[batchId].numSubmissions >= maxBatchSize THEN "BatchFull" ELSE "ok",
                 IF ~batches[batchId].isOpen THEN "BatchClosed" ELSE "ok",
                 IF hasSubmitted[batchId][sender] THEN "InvalidBatch" ELSE "ok",
                 _requireInitialized(encryptedScore, "encryptedScore")>>)

submitEncryptedInputResult(sender, batchId, encryptedScore) ==
    FirstError(<<whenNotPaused, checkCooldown(sender),
                 IF ~batches[batchId].isOpen THEN "BatchClosed" ELSE "ok",
                 IF batches[batchId].numSubmissions >= maxBatchSize THEN "BatchFull" ELSE "ok",
                 IF hasSubmitted[batchId][sender] THEN "InvalidBatch" ELSE "ok",
                 _requireInitialized(encryptedScore, "encryptedScore")>>)

\* seeded fault: the count is incremented before the initialization check,
\* which returns instead of reverting
submitEffect_CountFirst(batchId, encryptedScore, res) ==
    IF res = "ok"
    THEN [batches EXCEPT
            ![batchId].aggregateScore = add(@, encryptedScore),
            ![batchId].numSubmissions = @ + 1]
    ELSE IF res = "encryptedScore not initialized"
    THEN [batches EXCEPT ![batchId].numSubmissions = @ + 1]
    ELSE batches

\* the accumulator and the count of the batch after the call
submitEffect(batchId, encryptedScore, res) ==
    IF res = "ok"
    THEN [batches EXCEPT
            ![batchId].aggregateScore = add(@, encryptedScore),
            ![batchId].numSubmissions = @ + 1]
    ELSE batches

submitEncryptedInput(sender, batchId, encryptedScore) ==
    LET res == submitEncryptedInputResult(sender, batchId, encryptedScore) IN
    /\ batches' = submitEffect(batchId, encryptedScore, res)
    /\ hasSubmitted' = IF res = "ok" THEN [hasSubmitted EXCEPT ![batchId][sender] = TRUE]
                                     ELSE hasSubmitted
    /\ lastActionAt' = IF res = "ok" THEN [lastActionAt EXCEPT ![sender] = now]
                                     ELSE lastActionAt
    /\ accepted' = IF res = "ok" THEN [accepted EXCEPT ![batchId][sender] = @ + 1]
                                 ELSE accepted
    /\ submitted' = IF res = "ok" THEN [submitted EXCEPT ![batchId] = Append(@, encryptedScore)]
                                  ELSE submitted
    /\ last' = Call("submitEncryptedInput", sender, res,
                    <<"Submission", sender, batchId, toBytes32(encryptedScore)>>)
    /\ UNCHANGED <<paused, cooldownInterval, maxBatchSize, modelVersion, isProvider,
                   decryptionContexts, now, completed>>
    /\ OracleUnchanged /\ DashboardUnchanged

-----------------------------------------------------------------------------
(* The decryption oracle, as the contract uses it *)

\* abi.encode(uint32): one 32-byte word, here its sixteen 16-bit pieces
abiEncodeUint32(v) == [i \in 1..16 |-> IF i = 15 THEN v[1] ELSE IF i = 16 THEN v[2] ELSE 0]
abiDecodable(bytes) == Len(bytes) >= 16 /\ \A i \in 1..14 : bytes[i] = 0
\* seeded fault: only the low 16 bits of the word are read
abiDecodeUint32_LowBits(bytes) == <<0, bytes[16]>>

abiDecodeUint32(bytes) == <<bytes[15], bytes[16]>>

\* a KMS signature: the handles and the cleartexts it vouches for
ForgedProof == [handles |-> <<>>, cleartexts |-> <<>>]
KmsProof(cts) ==
    [handles |-> [i \in 1..Len(cts) |-> toBytes32(cts[i])],
     cleartexts |-> abiEncodeUint32(cts[1].pt)]

\* FHE.checkSignatures: the proof must sign the handles of this request and these cleartexts
checkSignatures(requestId, cleartexts, proof) ==
    IF /\ proof # ForgedProof
       /\ requestedHandles[requestId] # <<>>
       /\ proof = [handles |-> [i \in 1..Len(requestedHandles[requestId]) |->
                                   toBytes32(requestedHandles[requestId][i])],
                   cleartexts |-> cleartexts]
    THEN "ok" ELSE "InvalidKMSSignatures"

IssuedRequests == {r \in RequestIds : requestedHandles[r] # <<>>}
ProofInputs == {ForgedProof} \cup {KmsProof(requestedHandles[r]) : r \in IssuedRequests}
CleartextInputs ==
    {abiEncodeUint32(Uint32(1))} \cup {p.cleartexts : p \in ProofInputs \ {ForgedProof}}

-----------------------------------------------------------------------------
(* The decryption coordinator *)

\* seeded fault: the hash covers the contract address only
_hashCiphertexts_AddressOnly(cts) == <<<<>>, This>>

\* keccak256(abi.encode(cts, address(this))): collision-free, so the pair itself
_hashCiphertexts(cts) == <<cts, This>>

\* seeded fault: the empty-batch check is missing
requestBatchDecryptionResult_NoEmptyCheck(sender, batchId) ==
    FirstError(<<whenNotPaused, checkCooldown(sender),
                 IF batches[batchId].isOpen THEN "InvalidBatch" ELSE "ok">>)

\* seeded fault: the empty-batch check is off by one
requestBatchDecryptionResult_OffByOne(sender, batchId) ==
    FirstError(<<whenNotPaused, checkCooldown(sender),
                 IF batches[batchId].isOpen THEN "InvalidBatch" ELSE "ok",
                 IF batches[batchId].numSubmissions <= 1 THEN "InvalidBatch" ELSE "ok">>)

requestBatchDecryptionResult(sender, batchId) ==
    FirstError(<<whenNotPaused, checkCooldown(sender),
                 IF batches[batchId].isOpen THEN "InvalidBatch" ELSE "ok",
                 IF batches[batchId].numSubmissions = 0 THEN "InvalidBatch" ELSE "ok">>)

requestStateHash(batchId) ==
    _hashCiphertexts(<<toBytes32(batches[batchId].aggregateScore)>>)

requestBatchDecryption(sender, batchId) ==
    LET res == requestBatchDecryptionResult(sender, batchId)
        stateHash == requestStateHash(batchId)
        requestId == counterRequest IN
    /\ res = "ok" => counterRequest < MaxRequests
    /\ decryptionContexts' =
          IF res = "ok"
          THEN [decryptionContexts EXCEPT ![requestId] =
                  [batchId |-> batchId, stateHash |-> stateHash, processed |-> FALSE]]
          ELSE decryptionContexts
    /\ counterRequest' = IF res = "ok" THEN counterRequest + 1 ELSE counterRequest
    /\ requestedHandles' =
          IF res = "ok"
          THEN [requestedHandles EXCEPT ![requestId] = <<batches[batchId].aggregateScore>>]
          ELSE requestedHandles
    /\ last' = Call("requestBatchDecryption", sender, res,
                    <<"DecryptionRequested", requestId, batchId, stateHash>>)
    /\ UNCHANGED <<paused, cooldownInterval, maxBatchSize, modelVersion, isProvider,
                   lastActionAt, batches, hasSubmitted, now>>
    /\ HistoryUnchanged /\ DashboardUnchanged

currentStateHash(requestId) ==
    _hashCiphertexts(<<toBytes32(batches[decryptionContexts[requestId].batchId].aggregateScore)>>)

\* seeded fault: the replay check is missing
handleBatchDecryptionResult_NoReplayCheck(requestId, cleartexts, proof) ==
    LET ctx == decryptionContexts[requestId] IN
    FirstError(<<IF ctx.batchId = 0 THEN "Invalid context" ELSE "ok",
                 IF currentStateHash(requestId) # ctx.stateHash THEN "InvalidStateHash" ELSE "ok",
                 checkSignatures(requestId, cleartexts, proof),
                 IF ~abiDecodable(cleartexts) THEN "DecodeError" ELSE "ok">>)

\* seeded fault: the proof is verified before the state hash is compared
handleBatchDecryptionResult_ProofFirst(requestId, cleartexts, proof) ==
    LET ctx == decryptionContexts[requestId] IN
    FirstError(<<IF ctx.processed THEN "AlreadyProcessed" ELSE "ok",
                 IF ctx.batchId = 0 THEN "Invalid context" ELSE "ok",
                 checkSignatures(requestId, cleartexts, proof),
                 IF currentStateHash(requestId) # ctx.stateHash THEN "InvalidStateHash" ELSE "ok",
                 IF ~abiDecodable(cleartexts) THEN "DecodeError" ELSE "ok">>)

\* seeded fault: the check for an unknown request is missing
handleBatchDecryptionResult_NoContextCheck(requestId, cleartexts, proof) ==
    LET ctx == decryptionContexts[requestId] IN
    FirstError(<<IF ctx.processed THEN "AlreadyProcessed" ELSE "ok",
                 IF currentStateHash(requestId) # ctx.stateHash THEN "InvalidStateHash" ELSE "ok",
                 checkSignatures(requestId, cleartexts, proof),
                 IF ~abiDecodable(cleartexts) THEN "DecodeError" ELSE "ok">>)

\* seeded fault: a callback is refused while an earlier request is pending
handleBatchDecryptionResult_InOrder(requestId, cleartexts, proof) ==
    LET ctx == decryptionContexts[requestId] IN
    FirstError(<<IF ctx.processed THEN "AlreadyProcessed" ELSE "ok",
                 IF ctx.batchId = 0 THEN "Invalid context" ELSE "ok",
                 IF \E r \in 0..(requestId - 1) : ~decryptionContexts[r].processed
                    THEN "OutOfOrder" ELSE "ok",
                 IF currentStateHash(requestId) # ctx.stateHash THEN "InvalidStateHash" ELSE "ok",
                 checkSignatures(requestId, cleartexts, proof),
                 IF ~abiDecodable(cleartexts) THEN "DecodeError" ELSE "ok">>)

\* seeded fault: the callback is refused while the system is paused
handleBatchDecryptionResult_WhenNotPaused(requestId, cleartexts, proof) ==
    LET ctx == decryptionContexts[requestId] IN
    FirstError(<<whenNotPaused,
                 IF ctx.processed THEN "AlreadyProcessed" ELSE "ok",
                 IF ctx.batchId = 0 THEN "Invalid context" ELSE "ok",
                 IF currentStateHash(requestId) # ctx.stateHash THEN "InvalidStateHash" ELSE "ok",
                 checkSignatures(requestId, cleartexts, proof),
                 IF ~abiDecodable(cleartexts) THEN "DecodeError" ELSE "ok">>)

handleBatchDecryptionResult(requestId, cleartexts, proof) ==
    LET ctx == decryptionContexts[requestId] IN
    FirstError(<<IF ctx.processed THEN "AlreadyProcessed" ELSE "ok",
                 IF ctx.batchId = 0 THEN "Invalid context" ELSE "ok",
                 IF currentStateHash(requestId) # ctx.stateHash THEN "InvalidStateHash" ELSE "ok",
                 checkSignatures(requestId, cleartexts, proof),
                 IF ~abiDecodable(cleartexts) THEN "DecodeError" ELSE "ok">>)

\* seeded fault: the request is marked before the integrity checks, and their
\* failure does not undo it
markProcessed_BeforeChecks(requestId, res) ==
    IF res \in {"ok", "InvalidStateHash", "InvalidKMSSignatures"}
    THEN [decryptionContexts EXCEPT ![requestId].processed = TRUE]
    ELSE decryptionContexts

\* seeded fault: a completed request's record is deleted
markProcessed_Delete(requestId, res) ==
    IF res = "ok" THEN [decryptionContexts EXCEPT ![requestId] = EmptyContext]
                  ELSE decryptionContexts

\* ctx.processed = true, the last statement of a callback that did not revert
markProcessed(requestId, res) ==
    IF res = "ok" THEN [decryptionContexts EXCEPT ![requestId].processed = TRUE]
                  ELSE decryptionContexts

\* the function is public and has no modifier: msg.sender is never read
handleBatchDecryption(sender, requestId, cleartexts, proof) ==
    LET res == handleBatchDecryptionResult(requestId, cleartexts, proof)
        ctx == decryptionContexts[requestId] IN
    /\ decryptionContexts' = markProcessed(requestId, res)
    /\ completed' = IF res = "ok" THEN [completed EXCEPT ![requestId] = @ + 1] ELSE completed
    /\ last' = Call("handleBatchDecryption", sender, res,
                    <<"DecryptionComplete", requestId, ctx.batchId,
                      IF res = "ok" THEN abiDecodeUint32(cleartexts) ELSE <<>> >>)
    /\ UNCHANGED <<paused, cooldownInterval, maxBatchSize, modelVersion, isProvider,
                   lastActionAt, batches, hasSubmitted, now, accepted, submitted>>
    /\ OracleUnchanged /\ DashboardUnchanged

-----------------------------------------------------------------------------
(* Time *)

Tick ==
    /\ now < DeployTime + MaxTicks
    /\ now' = now + 1
    /\ UNCHANGED <<storage, last>>
    /\ HistoryUnchanged /\ OracleUnchanged /\ DashboardUnchanged

-----------------------------------------------------------------------------

\* The callback of a pending request that carries the decryption of the
\* requested handles and the KMS proof for it, sent by anyone who has them.
Relay(sender, r) ==
    /\ decryptionContexts[r].batchId # 0
    /\ ~decryptionContexts[r].processed
    /\ handleBatchDecryption(sender, r, KmsProof(requestedHandles[r]).cleartexts,
                             KmsProof(requestedHandles[r]))

\* The relayer sends callbacks with any cleartexts and any proof.  A callback
\* that reverts leaves no trace of its sender, so the other callers send the
\* answers that can be accepted.
Next ==
    \/ \E a \in Actors : pause(a)
    \/ \E a \in Actors : unpause(a)
    \/ \E a \in Actors, v \in CooldownInputs : setCooldownInterval(a, v)
    \/ \E a \in Actors, v \in BatchSizeInputs : setMaxBatchSize(a, v)
    \/ \E a \in Actors, p \in Actors : addProvider(a, p)
    \/ \E a \in Actors, p \in Actors : removeProvider(a, p)
    \/ \E a \in Actors : openBatch(a)
    \/ \E a \in Actors, b \in BatchIdInputs : closeBatch(a, b)
    \/ \E a \in Actors, b \in BatchIdInputs, x \in InputCiphertexts : submitEncryptedInput(a, b, x)
    \/ \E a \in Actors, b \in BatchIdInputs : requestBatchDecryption(a, b)
    \/ \E r \in RequestIds, c \in CleartextInputs, p \in ProofInputs :
          handleBatchDecryption(Oracle, r, c, p)
    \/ \E s \in Callers \ {Oracle}, r \in RequestIds : Relay(s, r)
    \/ Tick

Spec == Init /\ [][Next]_vars

\* The ledger on its own: the owner lifts the cooldown and names providers, and
\* makes no other administrative call, so that a batch can collect a
\* submission of every actor and be decrypted within the time the model covers.
NextLedger ==
    \/ setCooldownInterval(owner, 0)
    \/ \E p \in Actors : addProvider(owner, p)
    \/ \E a \in Actors : openBatch(a)
    \/ \E a \in Actors, b \in BatchIdInputs : closeBatch(a, b)
    \/ \E a \in Actors, b \in BatchIdInputs, x \in InputCiphertexts : submitEncryptedInput(a, b, x)
    \/ \E a \in Actors, b \in BatchIdInputs : requestBatchDecryption(a, b)
    \/ \E r \in RequestIds, c \in CleartextInputs, p \in ProofInputs :
          handleBatchDecryption(Oracle, r, c, p)
    \/ \E s \in Callers \ {Oracle}, r \in RequestIds : Relay(s, r)
    \/ Tick

SpecLedger == Init /\ [][NextLedger]_vars

\* The oracle answers every request: the relayer delivers the callback that
\* carries the decryption of the requested handles and the KMS proof for it,
\* and keeps doing so while the request is pending.
Deliver(r) == Relay(Oracle, r)

OracleFairness == \A r \in RequestIds : WF_vars(Deliver(r))

SpecLive == Init /\ [][NextLedger]_vars /\ OracleFairness

-----------------------------------------------------------------------------
(* The dashboard: submitGameAnswer over the shared key-value store *)

ContractUnchanged ==
    UNCHANGED <<storage, now, counterRequest, requestedHandles,
                accepted, completed, submitted, last>>

\* the store: a key holds the bytes last set for it
getData(key) == store[key]
setData(key, value) == [store EXCEPT ![key] = value]

\* the list held under game_keys, as submitGameAnswer and loadGames read it
parseKeys(keysBytes) == IF Len(keysBytes) > 0 THEN JSONparse(keysBytes) ELSE <<>>

\* the client creates a game id and stores the game's record
submitGameAnswer_setGame(c) ==
    LET gameId == <<c, client[c].count + 1>>
        gameData == [player |-> c, status |-> "pending"] IN
    /\ client[c].pc = "idle"
    /\ client[c].count < MaxGames
    /\ store' = setData(gameKey(gameId), JSONstringify(gameData))
    /\ client' = [client EXCEPT ![c].pc = "getKeys", ![c].gameId = gameId,
                                ![c].count = @ + 1]
    /\ ContractUnchanged

\* it reads the list of game ids
submitGameAnswer_getKeys(c) ==
    /\ client[c].pc = "getKeys"
    /\ client' = [client EXCEPT ![c].pc = "setKeys",
                                ![c].keys = parseKeys(getData(gameKeys))]
    /\ UNCHANGED store
    /\ ContractUnchanged

\* keys.push(gameId)
pushKey(keys, gameId) == Append(keys, gameId)

\* it appends its id to the list it read and writes the list back
submitGameAnswer_setKeys(c) ==
    /\ client[c].pc = "setKeys"
    /\ store' = setData(gameKeys, JSONstringify(pushKey(client[c].keys, client[c].gameId)))
    /\ client' = [client EXCEPT ![c].pc = "loadGames"]
    /\ ContractUnchanged

\* the write of the list throws (the wallet rejects the transaction): the
\* call ends in its catch branch
submitGameAnswer_rejected(c) ==
    /\ client[c].pc = "setKeys"
    /\ client' = [client EXCEPT ![c].pc = "idle", ![c].failed = TRUE]
    /\ UNCHANGED store
    /\ ContractUnchanged

\* loadGames: the games the client shows are the listed ids that have a record
loadGames(c) ==
    LET keys == parseKeys(getData(gameKeys)) IN
    /\ client[c].pc = "loadGames"
    /\ client' = [client EXCEPT
                    ![c].pc = "idle",
                    ![c].games = {keys[i] : i \in {j \in 1..Len(keys) :
                                                     Len(getData(gameKey(keys[j]))) > 0}}]
    /\ UNCHANGED store
    /\ ContractUnchanged

NextDashboard ==
    \/ \E c \in Clients : submitGameAnswer_setGame(c)
    \/ \E c \in Clients : submitGameAnswer_getKeys(c)
    \/ \E c \in Clients : submitGameAnswer_setKeys(c)
    \/ \E c \in Clients : submitGameAnswer_rejected(c)
    \/ \E c \in Clients : loadGames(c)

SpecDashboard == Init /\ [][NextDashboard]_vars

-----------------------------------------------------------------------------
(* Properties *)

\* a request record exists, and the values a callback for it can carry
Exists(r) == decryptionContexts[r].batchId # 0
FingerprintMatches(r) == currentStateHash(r) = decryptionContexts[r].stateHash
HonestCleartexts(r) == KmsProof(requestedHandles[r]).cleartexts
HonestProof(r) == KmsProof(requestedHandles[r])

\* C1: for every request id at most one callback ever succeeds (one
\* DecryptionComplete), and once one has succeeded every callback for that id,
\* whatever its cleartexts and proof (the valid proof and a matching
\* fingerprint included), is rejected with AlreadyProcessed.
C1_OneCallbackPerRequest ==
    \A r \in RequestIds :
        /\ completed[r] <= 1
        /\ completed[r] = 1 =>
              \A c \in CleartextInputs, p \in ProofInputs :
                  handleBatchDecryptionResult(r, c, p) = "AlreadyProcessed"

\* a replayed callback was just rejected although its request's fingerprint
\* still matches and the honest proof still verifies
C1_Witness ==
    /\ last.op = "handleBatchDecryption"
    /\ last.result = "AlreadyProcessed"
    /\ \E r \in RequestIds :
          /\ completed[r] = 1
          /\ FingerprintMatches(r)
          /\ checkSignatures(r, HonestCleartexts(r), HonestProof(r)) = "ok"

\* C2: a callback for an existing, unprocessed request whose fingerprint,
\* recomputed from the batch's current accumulator, differs from the stored one
\* is rejected with InvalidStateHash whether its proof verifies or not, and a
\* call rejected so emits no event.
C2_StaleCallbackRejected ==
    /\ \A r \in RequestIds, c \in CleartextInputs, p \in ProofInputs :
          (Exists(r) /\ ~decryptionContexts[r].processed /\ ~FingerprintMatches(r))
              => handleBatchDecryptionResult(r, c, p) = "InvalidStateHash"
    /\ (last.op = "handleBatchDecryption" /\ last.result = "InvalidStateHash")
          => last.events = <<>>

\* a callback was just rejected with InvalidStateHash while a stale request's
\* honest proof verifies
C2_Witness ==
    /\ last.op = "handleBatchDecryption"
    /\ last.result = "InvalidStateHash"
    /\ \E r \in RequestIds :
          /\ Exists(r) /\ ~decryptionContexts[r].processed /\ ~FingerprintMatches(r)
          /\ checkSignatures(r, HonestCleartexts(r), HonestProof(r)) = "ok"

\* C3: for every batch id and actor at most one submission is ever accepted,
\* and once one has been accepted every further submission by that actor to
\* that batch id is rejected.
C3_OneSubmissionPerActor ==
    \A b \in BatchIds, a \in Actors :
        /\ accepted[b][a] <= 1
        /\ accepted[b][a] = 1 =>
              \A x \in InputCiphertexts : submitEncryptedInputResult(a, b, x) # "ok"

\* a second submission was just rejected as a duplicate, after every actor
\* had submitted to the batch
C3_Witness ==
    /\ last.op = "submitEncryptedInput"
    /\ last.result = "InvalidBatch"
    /\ \A a \in Actors : accepted[modelVersion][a] = 1

\* C4 as claimed: in every reachable state every batch's submission count is at
\* most the current maxBatchSize, also after setMaxBatchSize.
C4_CountWithinCurrentCap ==
    \A b \in BatchIds : batches[b].numSubmissions <= maxBatchSize

\* C4 amended: a submission is accepted only while the batch's count is below
\* the maxBatchSize in force at that call, so right after every accepted
\* submission the batch's count is at most the current maxBatchSize.
C4_CountWithinCapAtSubmission ==
    /\ \A a \in Actors, b \in BatchIds, x \in InputCiphertexts :
          batches[b].numSubmissions >= maxBatchSize
              => submitEncryptedInputResult(a, b, x) # "ok"
    /\ (last.op = "submitEncryptedInput" /\ last.result = "ok")
          => batches[last.events[3]].numSubmissions <= maxBatchSize

\* a submission was just accepted and filled the batch to the cap
C4_Witness ==
    /\ last.op = "submitEncryptedInput"
    /\ last.result = "ok"
    /\ batches[last.events[3]].numSubmissions = maxBatchSize

\* C5: in every reachable state a batch's submission count equals the number
\* of submissions accepted for that batch id, which is the number of actors
\* whose dedup record for it is set.
C5_CountEqualsAccepted ==
    \A b \in BatchIds :
        /\ batches[b].numSubmissions = Cardinality({a \in Actors : hasSubmitted[b][a]})
        /\ batches[b].numSubmissions = Cardinality({a \in Actors : accepted[b][a] >= 1})

\* the lifecycle state of a batch id, read from its storage slot
Absent(b) == ~batches[b].isOpen /\ ~isInitialized(batches[b].aggregateScore)
Open(b) == batches[b].isOpen
Closed(b) == ~batches[b].isOpen /\ isInitialized(batches[b].aggregateScore)
Cooled(a) == checkCooldown(a) = "ok"

\* C6 as claimed: requestBatchDecryption on an Open batch, or on a batch with
\* no submissions, fails with InvalidBatch.
C6_RequestRejectedInvalidBatch ==
    \A a \in Actors, b \in BatchIds :
        (Open(b) \/ batches[b].numSubmissions = 0)
            => requestBatchDecryptionResult(a, b) = "InvalidBatch"

C6_Rejected ==
    \A a \in Actors, b \in BatchIds :
        (Open(b) \/ batches[b].numSubmissions = 0) =>
            /\ requestBatchDecryptionResult(a, b) \in {"Paused", "CooldownActive", "Panic", "InvalidBatch"}
            /\ (~paused /\ Cooled(a)) => requestBatchDecryptionResult(a, b) = "InvalidBatch"

C6_NothingCreated ==
    (last'.op = "requestBatchDecryption" /\ last'.result # "ok") =>
        /\ decryptionContexts' = decryptionContexts
        /\ counterRequest' = counterRequest
        /\ last'.events = <<>>

\* C6 amended: requestBatchDecryption on an Open batch, or on a batch with no
\* submissions (closed empty, or never opened), always fails: with InvalidBatch
\* when the system is unpaused and the caller's cooldown has elapsed, otherwise
\* with Paused, CooldownActive or the arithmetic panic of the cooldown sum; a
\* failed request creates no DecryptionContext and emits no event.
C6_RequestRejected == []C6_Rejected /\ [][C6_NothingCreated]_vars

\* a request was just rejected with InvalidBatch while the batch is closed and empty
C6_Witness ==
    /\ last.op = "requestBatchDecryption"
    /\ last.result = "InvalidBatch"
    /\ Closed(modelVersion) /\ batches[modelVersion].numSubmissions = 0
    /\ \E a \in Actors : ~paused /\ Cooled(a)

\* C7: requestBatchDecryption on a Closed batch with at least one submission,
\* by a provider, unpaused and past the cooldown, succeeds; a successful request
\* stores under the oracle's request id a context with that batch id, the
\* fingerprint of the batch's accumulator and processed = false, and emits
\* DecryptionRequested(requestId, batchId, fingerprint).
C7_RequestSucceeds ==
    /\ \A a \in Actors, b \in BatchIds :
          (isProvider[a] /\ ~paused /\ Cooled(a)
             /\ Closed(b) /\ batches[b].numSubmissions >= 1)
              => requestBatchDecryptionResult(a, b) = "ok"
    /\ (last.op = "requestBatchDecryption" /\ last.result = "ok") =>
          LET r == last.events[2]
              b == last.events[3] IN
          /\ r = counterRequest - 1
          /\ last.events = <<"DecryptionRequested", r, b, requestStateHash(b)>>
          /\ decryptionContexts[r] =
                [batchId |-> b, stateHash |-> requestStateHash(b), processed |-> FALSE]
          /\ Closed(b) /\ batches[b].numSubmissions >= 1

\* a provider's request on a closed, non-empty batch just succeeded
C7_Witness ==
    /\ last.op = "requestBatchDecryption"
    /\ last.result = "ok"
    /\ isProvider[last.caller]

\* the accumulator handle a request was issued for, and the batch's handle now
HandleAtRequest(r) == toBytes32(requestedHandles[r][1])
HandleNow(r) == toBytes32(batches[decryptionContexts[r].batchId].aggregateScore)

\* C8: the fingerprint depends on the accumulator handle (and the contract's
\* address) only: two requests issued for the same handle store equal
\* fingerprints, and a request's fingerprint recomputed now equals the stored
\* one exactly when the batch's handle is the one it had at request time.
C8_FingerprintDeterministic ==
    /\ \A r1, r2 \in IssuedRequests :
          HandleAtRequest(r1) = HandleAtRequest(r2)
              => decryptionContexts[r1].stateHash = decryptionContexts[r2].stateHash
    /\ \A r \in IssuedRequests :
          FingerprintMatches(r) <=> HandleNow(r) = HandleAtRequest(r)

\* two requests were issued for the same accumulator, which has changed since
C8_Witness ==
    \E r1, r2 \in IssuedRequests :
        /\ r1 # r2
        /\ decryptionContexts[r1].batchId = decryptionContexts[r2].batchId
        /\ decryptionContexts[r1].stateHash = decryptionContexts[r2].stateHash
        /\ ~FingerprintMatches(r1)

\* C9: requestBatchDecryption is provider-gated: no call by an actor who is not
\* a provider is accepted (the claim names the error, NotProvider; that no such
\* call creates a request is what is stated here).
C9_RequestProviderGated ==
    \A a \in Actors, b \in BatchIds :
        ~isProvider[a] => requestBatchDecryptionResult(a, b) # "ok"

\* C10: Closed is terminal: no step takes a batch id that is Closed to Open.
C10_ClosedIsTerminal ==
    [][\A b \in BatchIds : Closed(b) => ~batches'[b].isOpen]_vars

\* C11: the content of a Closed batch is frozen: no step changes the accumulator
\* or the submission count of a batch id that is Closed.
C11_ClosedContentFrozen ==
    [][\A b \in BatchIds :
          Closed(b) => /\ batches'[b].aggregateScore = batches[b].aggregateScore
                       /\ batches'[b].numSubmissions = batches[b].numSubmissions]_vars

\* now < lastActionAt + cooldownInterval, as a comparison of two numbers
InCooldown(a) == now - lastActionAt[a] < cooldownInterval
SumOverflows(a) == lastActionAt[a] > MaxUint256 - cooldownInterval
ProviderGatedResults(a) ==
    {openBatchResult(a)} \cup {closeBatchResult(a, b) : b \in BatchIds}
OpenGatedResults(a) ==
    {submitEncryptedInputResult(a, b, x) : b \in BatchIds, x \in InputCiphertexts}
        \cup {requestBatchDecryptionResult(a, b) : b \in BatchIds}
GatedResults(a) == ProviderGatedResults(a) \cup OpenGatedResults(a)
ActionOps == {"openBatch", "closeBatch", "submitEncryptedInput"}

\* C12 as stated: while an actor is within the cooldown of its last action every
\* cooldown-gated call it makes is rejected with CooldownActive, and once the
\* cooldown has elapsed none is.
C12_CooldownActiveWhileCooling ==
    \A a \in Actors :
        /\ InCooldown(a) => GatedResults(a) = {"CooldownActive"}
        /\ ~InCooldown(a) => "CooldownActive" \notin GatedResults(a)

C12_Gate ==
    \A a \in Actors :
        /\ InCooldown(a) =>
              /\ ProviderGatedResults(a) \subseteq
                     {"NotProvider", "Paused", "CooldownActive", "Panic"}
              /\ OpenGatedResults(a) \subseteq {"Paused", "CooldownActive", "Panic"}
              /\ (~paused /\ ~SumOverflows(a)) => OpenGatedResults(a) = {"CooldownActive"}
              /\ (~paused /\ ~SumOverflows(a) /\ isProvider[a]) =>
                     ProviderGatedResults(a) = {"CooldownActive"}
        /\ ~InCooldown(a) => "CooldownActive" \notin GatedResults(a)

C12_LastActionTracked ==
    lastActionAt' =
        IF last' # last /\ last'.result = "ok" /\ last'.op \in ActionOps
        THEN [lastActionAt EXCEPT ![last'.caller] = now]
        ELSE lastActionAt

\* C12 amended: lastActionAt of an actor is the time of its last successful
\* open, close or submit, whatever the operation.  While now is before that time
\* plus cooldownInterval, every cooldown-gated call of the actor is rejected:
\* with CooldownActive when the system is unpaused, the actor passes the role
\* check and the sum fits in uint256, otherwise with NotProvider, Paused or the
\* arithmetic panic of the sum.  From that time on no call of the actor is
\* rejected with CooldownActive.
C12_CooldownGlobal == []C12_Gate /\ [][C12_LastActionTracked]_vars

\* both actors acted in this second and a decryption request was then refused
C12_Witness ==
    /\ last.op = "requestBatchDecryption"
    /\ last.result = "CooldownActive"
    /\ \A a \in Actors : lastActionAt[a] = now /\ InCooldown(a)

\* C13 as stated: addProvider of an existing provider and removeProvider of a
\* non-provider always fail with InvalidConfigValue.
C13_NoopRoleChangeInvalidConfig ==
    \A a, p \in Actors :
        /\ isProvider[p] => addProviderResult(a, p) = "InvalidConfigValue"
        /\ ~isProvider[p] => removeProviderResult(a, p) = "InvalidConfigValue"

C13_Rejected ==
    \A a, p \in Actors :
        LET error == IF a = owner THEN "InvalidConfigValue" ELSE "NotOwner" IN
        /\ isProvider[p] => addProviderResult(a, p) = error
        /\ ~isProvider[p] => removeProviderResult(a, p) = error

C13_TableUnchanged ==
    (last'.op \in {"addProvider", "removeProvider"} /\ last'.result # "ok") =>
        /\ isProvider' = isProvider
        /\ last'.events = <<>>

\* C13 amended: addProvider of an existing provider and removeProvider of a
\* non-provider always fail, with InvalidConfigValue when the owner calls and
\* with NotOwner otherwise; the failed call leaves the provider table as it
\* was and emits no event.
C13_NoopRoleChangeRejected == []C13_Rejected /\ [][C13_TableUnchanged]_vars

\* the owner has just tried to add an actor that already is a provider
C13_Witness ==
    /\ last.op = "addProvider"
    /\ last.result = "InvalidConfigValue"
    /\ \A a \in Actors : isProvider[a]

\* C14 as stated: setCooldownInterval(v) with v the current value, and
\* setMaxBatchSize(v) with v the current value or zero, are rejected with
\* InvalidConfigValue; maxBatchSize is at least 1.
C14_NoopConfigInvalidConfig ==
    /\ \A a \in Actors :
          setCooldownIntervalResult(a, cooldownInterval) = "InvalidConfigValue"
    /\ \A a \in Actors, v \in {maxBatchSize, 0} :
          setMaxBatchSizeResult(a, v) = "InvalidConfigValue"
    /\ maxBatchSize >= 1

C14_Rejected ==
    /\ \A a \in Actors :
          LET error == IF a = owner THEN "InvalidConfigValue" ELSE "NotOwner" IN
          /\ setCooldownIntervalResult(a, cooldownInterval) = error
          /\ \A v \in {maxBatchSize, 0} : setMaxBatchSizeResult(a, v) = error
    /\ maxBatchSize >= 1

C14_ConfigUnchanged ==
    (last'.op \in {"setCooldownInterval", "setMaxBatchSize"} /\ last'.result # "ok") =>
        /\ UNCHANGED storage
        /\ last'.events = <<>>

\* C14 amended: setCooldownInterval(v) with v the current value, and
\* setMaxBatchSize(v) with v the current value or zero, are rejected, with
\* InvalidConfigValue when the owner calls and with NotOwner otherwise; the
\* rejected call changes no storage and emits no event; maxBatchSize is at
\* least 1 in every reachable state.
C14_NoopConfigRejected == []C14_Rejected /\ [][C14_ConfigUnchanged]_vars

\* the owner has lowered the cap to 1 and a further setMaxBatchSize was refused
C14_Witness ==
    /\ last.op = "setMaxBatchSize"
    /\ last.result = "InvalidConfigValue"
    /\ maxBatchSize = 1

GatedOps == ActionOps \cup {"requestBatchDecryption"}

C15_RejectedWhilePaused ==
    \A a \in Actors :
        /\ paused =>
              /\ OpenGatedResults(a) = {"Paused"}
              /\ ProviderGatedResults(a) =
                     IF isProvider[a] THEN {"Paused"} ELSE {"NotProvider"}
        /\ ~paused => "Paused" \notin GatedResults(a)

C15_NothingChangesWhilePaused ==
    (paused /\ last'.op \in GatedOps) =>
        /\ UNCHANGED <<batches, hasSubmitted, decryptionContexts, lastActionAt>>
        /\ last'.result # "ok"

\* C15: while the system is paused every openBatch, closeBatch,
\* submitEncryptedInput and requestBatchDecryption is rejected, with Paused
\* when the caller passes the operation's role check, and changes no batch,
\* dedup, request or lastAction state; when the system is not paused no such
\* call is rejected with Paused.
C15_PauseBlocksLedger == []C15_RejectedWhilePaused /\ [][C15_NothingChangesWhilePaused]_vars

\* a submission to an open batch has just been refused because of the pause
C15_Witness ==
    /\ paused
    /\ last.op = "submitEncryptedInput"
    /\ last.result = "Paused"
    /\ Open(modelVersion)

AdminOps == {"pause", "unpause", "addProvider", "removeProvider",
             "setCooldownInterval", "setMaxBatchSize"}

\* C16: openBatch and closeBatch by an actor that is not a provider fail with
\* NotProvider, and the six administrative operations by an actor other than
\* the owner fail with NotOwner, whatever the arguments and the state; so the
\* latest successful call of these operations was made by a provider, or by the
\* owner, and the actor a removeProvider has just removed is not a provider.
C16_Authorization ==
    /\ \A a \in Actors :
          ~isProvider[a] => ProviderGatedResults(a) = {"NotProvider"}
    /\ \A a \in Actors \ {owner} :
          /\ onlyOwner(a) = "NotOwner"
          /\ \A v \in CooldownInputs : setCooldownIntervalResult(a, v) = "NotOwner"
          /\ \A v \in BatchSizeInputs : setMaxBatchSizeResult(a, v) = "NotOwner"
          /\ \A p \in Actors : addProviderResult(a, p) = "NotOwner"
          /\ \A p \in Actors : removeProviderResult(a, p) = "NotOwner"
    /\ (last.op \in {"openBatch", "closeBatch"} /\ last.result = "ok") =>
          isProvider[last.caller]
    /\ (last.op \in AdminOps /\ last.result = "ok") => last.caller = owner
    /\ (last.op = "removeProvider" /\ last.result = "ok") => ~isProvider[last.events[2]]

\* the owner removed its own provider role while its batch was open, and the
\* closeBatch that followed was refused
C16_Witness ==
    /\ \A a \in Actors : ~isProvider[a]
    /\ Open(modelVersion)
    /\ last.op = "closeBatch"
    /\ last.result = "NotProvider"

IntegrityErrors == {"InvalidStateHash", "InvalidKMSSignatures"}

C17_RejectedOnlyIfUnprocessed ==
    \A r \in RequestIds, c \in CleartextInputs, p \in ProofInputs :
        handleBatchDecryptionResult(r, c, p) \in IntegrityErrors =>
            ~decryptionContexts[r].processed

C17_RequestsUnchanged ==
    (last'.op = "handleBatchDecryption" /\ last'.result \in IntegrityErrors) =>
        /\ decryptionContexts' = decryptionContexts
        /\ completed' = completed
        /\ last'.events = <<>>

\* C17: a callback rejected for an integrity reason (InvalidStateHash, or the
\* failure of the proof verification) is a callback for a request that is not
\* processed, and it leaves every request as it was: processed still false,
\* batch id and fingerprint unchanged, nothing completed.
C17_IntegrityRejectKeepsRequest ==
    []C17_RejectedOnlyIfUnprocessed /\ [][C17_RequestsUnchanged]_vars

\* a forged proof was just refused for a request that is still pending and
\* whose fingerprint matches
C17_Witness ==
    /\ last.op = "handleBatchDecryption"
    /\ last.result = "InvalidKMSSignatures"
    /\ \A r \in IssuedRequests : ~decryptionContexts[r].processed /\ FingerprintMatches(r)
    /\ IssuedRequests # {}

\* the number of homomorphic additions folded into an encrypted value
Additions(x) == Cardinality({i \in 1..Len(x.id) : x.id[i] = 3})

C18_CountMatchesAccumulator ==
    \A b \in BatchIds :
        /\ batches[b].numSubmissions = Additions(batches[b].aggregateScore)
        /\ batches[b].numSubmissions > 0 => isInitialized(batches[b].aggregateScore)

C18_RevertChangesNothing ==
    last'.result # "ok" =>
        /\ UNCHANGED <<storage, counterRequest, requestedHandles, accepted, completed, submitted>>
        /\ last'.events = <<>>

\* C18: a rejected call is atomic: whatever the operation and the error, the
\* storage, the oracle's requests and the histories are exactly as before the
\* call and no event is emitted; and in every state the submission count of a
\* batch is the number of ciphertexts added into its accumulator.
C18_RejectedCallsAtomic == []C18_CountMatchesAccumulator /\ [][C18_RevertChangesNothing]_vars

\* an uninitialized ciphertext was just refused by a batch that already holds
\* a submission
C18_Witness ==
    /\ last.op = "submitEncryptedInput"
    /\ last.result = "encryptedScore not initialized"
    /\ batches[modelVersion].numSubmissions = 1

\* the sum of a sequence of uint32 plaintexts as an unbounded number, in three
\* 16-bit pieces <<carry, hi, lo>>
RECURSIVE SumExact(_)
SumExact(pts) ==
    IF pts = <<>> THEN <<0, 0, 0>>
    ELSE LET s == SumExact(Tail(pts))
             lo == s[3] + Head(pts)[2]
             hi == s[2] + Head(pts)[1] + (lo \div Half)
         IN <<s[1] + (hi \div Half), hi % Half, lo % Half>>

Completed == last.op = "handleBatchDecryption" /\ last.result = "ok"

\* the plaintexts of the submissions a batch id has accepted: all of them, and
\* those accepted since the id was last opened
Plaintexts(cts) == [i \in 1..Len(cts) |-> cts[i].pt]
AllSubmissions(b) == submitted[b]
CurrentSubmissions(b) ==
    SubSeq(submitted[b], Len(submitted[b]) - batches[b].numSubmissions + 1, Len(submitted[b]))

\* C19 as stated: a DecryptionComplete event carries the id of a request that
\* is now processed, the batch id of that request, and an aggregate equal to
\* the sum of the plaintexts of all accepted submissions of that batch.
C19_AggregateIsSum ==
    Completed =>
        LET sum == SumExact(Plaintexts(AllSubmissions(last.events[3]))) IN
        /\ last.events[1] = "DecryptionComplete"
        /\ decryptionContexts[last.events[2]].processed
        /\ decryptionContexts[last.events[2]].batchId = last.events[3]
        /\ sum[1] = 0
        /\ last.events[4] = <<sum[2], sum[3]>>

\* C19 amended: the aggregate of a DecryptionComplete event is the sum modulo
\* 2^32 of the plaintexts accepted by the batch since it was last opened; the
\* event carries the id of a request that is now processed and its batch id.
C19_AggregateIsSumMod32 ==
    Completed =>
        LET sum == SumExact(Plaintexts(CurrentSubmissions(last.events[3]))) IN
        /\ last.events[1] = "DecryptionComplete"
        /\ decryptionContexts[last.events[2]].processed
        /\ decryptionContexts[last.events[2]].batchId = last.events[3]
        /\ last.events[4] = <<sum[2], sum[3]>>

\* two actors submitted 2 each and the decryption has just reported 4
C19_Witness ==
    /\ Completed
    /\ Plaintexts(CurrentSubmissions(last.events[3])) = <<Uint32(2), Uint32(2)>>
    /\ last.events[4] = Uint32(4)

\* A second run of the same calls differs in what the submitted ciphertexts
\* encrypt: an assignment gives the plaintext of every input handle.
InputHandles == {toBytes32(x) : x \in InputCiphertexts \ {Uninitialized}}
InputPlaintexts == {x.pt : x \in InputCiphertexts \ {Uninitialized}}
Assignments == [InputHandles -> InputPlaintexts]
ThisRun == [h \in InputHandles |-> (CHOOSE x \in InputCiphertexts : toBytes32(x) = h).pt]
TotalUnder(assign, cts) == SumExact([i \in 1..Len(cts) |-> assign[toBytes32(cts[i])]])

\* what an accumulator handle decrypts to under an assignment: the handle of a
\* sum names its two operands, the second being the two-piece input handle
RECURSIVE DecryptUnder(_, _)
DecryptUnder(assign, handle) ==
    IF handle[1] = 3
    THEN add32(DecryptUnder(assign, SubSeq(handle, 2, Len(handle) - 2)),
               assign[SubSeq(handle, Len(handle) - 1, Len(handle))])
    ELSE Uint32(handle[2])

\* C20: only the aggregate is revealed: in any other run of the same calls in
\* which every batch id has received the same sum of plaintexts, the oracle
\* decrypts the requested handle to the aggregate this DecryptionComplete
\* event carries, so the event is the same in both runs.
C20_EventDependsOnBatchSumOnly ==
    Completed =>
        \A other \in Assignments :
            (\A b \in BatchIds :
                TotalUnder(other, submitted[b]) = TotalUnder(ThisRun, submitted[b]))
            => DecryptUnder(other, toBytes32(requestedHandles[last.events[2]][1]))
                   = last.events[4]

Pending(r) == Exists(r) /\ ~decryptionContexts[r].processed

C21_PendingCanComplete ==
    \A r \in RequestIds :
        /\ (Pending(r) /\ FingerprintMatches(r)) =>
              handleBatchDecryptionResult(r, HonestCleartexts(r), HonestProof(r)) = "ok"
        /\ completed[r] = (IF Exists(r) /\ decryptionContexts[r].processed THEN 1 ELSE 0)

C21_OthersUntouched ==
    last'.op = "handleBatchDecryption" =>
        \A r \in RequestIds :
            decryptionContexts'[r] # decryptionContexts[r] =>
                /\ last'.result = "ok"
                /\ r = last'.events[2]
                /\ decryptionContexts'[r] = [decryptionContexts[r] EXCEPT !.processed = TRUE]

\* C21: callbacks are accepted in any order and at any delay: in every
\* reachable state, whatever calls came in between and whatever the state of
\* the other requests, the honest callback of every pending request whose
\* fingerprint still matches is accepted; a request has completed exactly once
\* when it is processed and never otherwise; and a callback changes no record
\* but that of its own request, which it only marks processed.
C21_CallbacksInAnyOrder == []C21_PendingCanComplete /\ [][C21_OthersUntouched]_vars

\* the callback of the second request has just completed while the first
\* request is still pending and can still complete
C21_Witness ==
    /\ Completed
    /\ last.events[2] = 1
    /\ Pending(0) /\ FingerprintMatches(0)
    /\ decryptionContexts[1].processed

\* C22: for a caller past its cooldown while the system is not paused,
\* provider or not, submitEncryptedInput fails with BatchClosed if the batch is
\* not Open; otherwise with BatchFull if the count has reached maxBatchSize;
\* otherwise with InvalidBatch if the caller has already submitted to the batch;
\* otherwise it fails if the ciphertext is not initialized; and otherwise it is
\* accepted.
C22_SubmitCheckOrder ==
    \A a \in Actors, b \in BatchIds, x \in InputCiphertexts :
        (~paused /\ Cooled(a)) =>
            LET res == submitEncryptedInputResult(a, b, x) IN
            IF ~Open(b) THEN res = "BatchClosed"
            ELSE IF batches[b].numSubmissions >= maxBatchSize THEN res = "BatchFull"
            ELSE IF hasSubmitted[b][a] THEN res = "InvalidBatch"
            ELSE IF ~isInitialized(x) THEN res \notin {"ok", "BatchClosed", "BatchFull", "InvalidBatch"}
            ELSE res = "ok"

\* an actor that is not a provider has just had a submission accepted
C22_Witness ==
    /\ last.op = "submitEncryptedInput"
    /\ last.result = "ok"
    /\ ~isProvider[last.caller]

MayAct(a) == ~paused /\ Cooled(a)

\* C23 as stated: openBatch fails with InvalidBatch if the batch id equal to
\* modelVersion is currently Open.
C23_OpenRejectedInvalidBatch ==
    \A a \in Actors : Open(modelVersion) => openBatchResult(a) = "InvalidBatch"

C23_Outcome ==
    /\ \A a \in Actors :
          /\ Open(modelVersion) =>
                openBatchResult(a) \in
                    {"NotProvider", "Paused", "CooldownActive", "Panic", "InvalidBatch"}
          /\ (isProvider[a] /\ MayAct(a)) =>
                openBatchResult(a) = (IF Open(modelVersion) THEN "InvalidBatch" ELSE "ok")
    /\ (last.op = "openBatch" /\ last.result = "ok") =>
          /\ last.events = <<"BatchOpened", modelVersion, last.caller>>
          /\ batches[modelVersion] =
                [isOpen |-> TRUE, numSubmissions |-> 0, aggregateScore |-> asEuint32(0)]

C23_OpensAbsentOrClosed ==
    (last'.op = "openBatch" /\ last'.result = "ok" /\ now' = now) =>
        /\ Absent(modelVersion) \/ Closed(modelVersion)
        /\ \A b \in BatchIds \ {modelVersion} : batches'[b] = batches[b]

\* C23 amended: openBatch targets the batch id equal to modelVersion.  While
\* that id is Open it always fails: with InvalidBatch for a provider that is
\* past its cooldown while the system is not paused, otherwise with the error
\* of the modifier that rejects first.  It succeeds only when the id is absent
\* or closed, and then the batch is Open with count 0 and an accumulator equal
\* to encrypted zero, no other batch changes, and BatchOpened(batchId, caller)
\* is emitted.
C23_OpenBatch == []C23_Outcome /\ [][C23_OpensAbsentOrClosed]_vars

\* openBatch has just succeeded on an id that already took a submission
C23_Witness ==
    /\ last.op = "openBatch"
    /\ last.result = "ok"
    /\ \E a \in Actors : hasSubmitted[modelVersion][a]

\* C24 as stated: closeBatch by a provider fails with BatchClosed whenever the
\* batch is not currently Open.
C24_CloseRejectedBatchClosed ==
    \A a \in Actors, b \in BatchIds :
        (isProvider[a] /\ ~Open(b)) => closeBatchResult(a, b) = "BatchClosed"

C24_Outcome ==
    /\ \A a \in Actors, b \in BatchIds :
          /\ ~Open(b) =>
                closeBatchResult(a, b) \in
                    {"NotProvider", "Paused", "CooldownActive", "Panic", "BatchClosed"}
          /\ (isProvider[a] /\ MayAct(a)) =>
                closeBatchResult(a, b) = (IF Open(b) THEN "ok" ELSE "BatchClosed")
    /\ (last.op = "closeBatch" /\ last.result = "ok") =>
          /\ last.events = <<"BatchClosed", last.events[2], last.caller>>
          /\ Closed(last.events[2])

C24_OnlyFlips ==
    (last'.op = "closeBatch" /\ last'.result = "ok" /\ now' = now) =>
        /\ Open(last'.events[2])
        /\ batches' = [batches EXCEPT ![last'.events[2]].isOpen = FALSE]
        /\ hasSubmitted' = hasSubmitted

\* C24 amended: closeBatch(id) on a batch that is not Open always fails: with
\* BatchClosed for a provider that is past its cooldown while the system is not
\* paused, otherwise with the error of the modifier that rejects first.  On
\* success it only flips the batch from Open to Closed: the count, the
\* accumulator, every other batch and the dedup records are unchanged, and
\* BatchClosed(id, caller) is emitted.
C24_CloseBatch == []C24_Outcome /\ [][C24_OnlyFlips]_vars

\* a batch holding a submission has just been closed
C24_Witness ==
    /\ last.op = "closeBatch"
    /\ last.result = "ok"
    /\ batches[last.events[2]].numSubmissions >= 1
    /\ \E a \in Actors : hasSubmitted[last.events[2]][a]

\* C25: the callback applies its checks in the order replay, unknown request,
\* fingerprint, proof, decode: whatever the cleartexts and the proof, a callback
\* for a processed request fails with AlreadyProcessed; else one for an id
\* without a record fails with "Invalid context"; else one whose fingerprint
\* differs fails with InvalidStateHash; else one whose proof does not verify
\* fails in the proof verification; else one whose cleartexts do not decode
\* fails in the decoding; and only else it succeeds.  A failed callback emits
\* no event.
C25_CallbackCheckOrder ==
    /\ \A r \in RequestIds, c \in CleartextInputs, p \in ProofInputs :
          LET res == handleBatchDecryptionResult(r, c, p) IN
          IF decryptionContexts[r].processed THEN res = "AlreadyProcessed"
          ELSE IF ~Exists(r) THEN res = "Invalid context"
          ELSE IF ~FingerprintMatches(r) THEN res = "InvalidStateHash"
          ELSE IF checkSignatures(r, c, p) # "ok" THEN res = checkSignatures(r, c, p)
          ELSE IF ~abiDecodable(c) THEN res = "DecodeError"
          ELSE res = "ok"
    /\ (last.op = "handleBatchDecryption" /\ last.result # "ok") => last.events = <<>>

\* a callback for an id without a record has just been refused while another
\* request is pending
C25_Witness ==
    /\ last.op = "handleBatchDecryption"
    /\ last.result = "Invalid context"
    /\ last.events = <<>>
    /\ \E r \in RequestIds : Pending(r)

\* C26: every successful openBatch, closeBatch, submitEncryptedInput and
\* requestBatchDecryption sets lastActionAt of its caller to the current time
\* and leaves lastActionAt of every other actor unchanged.
C26_GatedOpsSetLastAction ==
    [][(last'.op \in GatedOps /\ last'.result = "ok" /\ now' = now) =>
          lastActionAt' = [lastActionAt EXCEPT ![last'.caller] = now]]_vars

C27_PendingOrProcessed ==
    \A r \in RequestIds :
        /\ Exists(r) <=> r \in IssuedRequests
        /\ Exists(r) <=> r < counterRequest
        /\ decryptionContexts[r].processed => Exists(r)
        /\ Exists(r) => decryptionContexts[r].stateHash # ZeroHash

C27_RecordKept ==
    \A r \in RequestIds :
        /\ Exists(r) =>
              /\ decryptionContexts'[r].batchId = decryptionContexts[r].batchId
              /\ decryptionContexts'[r].stateHash = decryptionContexts[r].stateHash
              /\ decryptionContexts[r].processed => decryptionContexts'[r].processed
        /\ (Exists(r) /\ decryptionContexts'[r].processed # decryptionContexts[r].processed) =>
              /\ last'.op = "handleBatchDecryption" /\ last'.result = "ok"
              /\ last'.events[2] = r

\* C27: a request is never cancelled or rewritten: a record exists exactly for
\* the request ids the oracle has given out; once it exists no step changes
\* its batch id or its fingerprint; its processed flag only ever goes from
\* false to true, and only in the successful callback for that request.
C27_RequestNeverRewritten == []C27_PendingOrProcessed /\ [][C27_RecordKept]_vars

\* the batch has been opened again after one request was processed, and a
\* second request is still pending, its fingerprint now stale
C27_Witness ==
    /\ last.op = "openBatch"
    /\ last.result = "ok"
    /\ \E r \in RequestIds : Exists(r) /\ decryptionContexts[r].processed
    /\ \E r \in RequestIds : Pending(r) /\ ~FingerprintMatches(r)

C29_OnlyInitialBatch ==
    /\ modelVersion = InitialModelVersion
    /\ Cardinality({b \in BatchIds : Open(b)}) <= 1
    /\ \A b \in BatchIds \ {InitialModelVersion} :
          /\ batches[b] = EmptyBatch
          /\ \A a \in Actors :
                /\ ~hasSubmitted[b][a]
                /\ closeBatchResult(a, b) # "ok"
                /\ requestBatchDecryptionResult(a, b) # "ok"
                /\ \A x \in InputCiphertexts : submitEncryptedInputResult(a, b, x) # "ok"

\* batch 1 is open and holds a submission, and a closeBatch that passed the
\* role, pause and cooldown checks has just failed with BatchClosed: it named
\* another id
C29_Witness ==
    /\ Open(InitialModelVersion)
    /\ batches[InitialModelVersion].numSubmissions > 0
    /\ last.op = "closeBatch" /\ last.result = "BatchClosed"

\* C30: when a callback has just succeeded, the batch of its request is
\* closed (not open, accumulator set) and the batch's accumulator handle is
\* the one that was snapshotted when the request was issued.
C30_CompletedBatchClosed ==
    Completed =>
        /\ Closed(last.events[3])
        /\ HandleNow(last.events[2]) = HandleAtRequest(last.events[2])

\* C31: handleBatchDecryption depends on the request record, the fingerprint
\* and the proof only. In every state, paused or not, the honest callback for
\* a pending request whose accumulator is unchanged is accepted, and no
\* callback is ever refused by the pause switch, a role check or the
\* cooldown; a callback, whoever sends it, leaves lastActionAt, the pause
\* switch and the roles as they were.
GateErrors == {"Paused", "NotOwner", "NotProvider", "CooldownActive", "Panic"}

C31_NoGate ==
    \A r \in RequestIds :
        /\ (Pending(r) /\ FingerprintMatches(r)) =>
              handleBatchDecryptionResult(r, HonestCleartexts(r), HonestProof(r)) = "ok"
        /\ \A c \in CleartextInputs, p \in ProofInputs :
              handleBatchDecryptionResult(r, c, p) \notin GateErrors

C31_NoGateUpdate ==
    last'.op = "handleBatchDecryption" =>
        /\ lastActionAt' = lastActionAt
        /\ paused' = paused
        /\ isProvider' = isProvider

C31_CallbackUngated == []C31_NoGate /\ [][C31_NoGateUpdate]_vars

\* a callback sent by an actor that is no provider and is in its cooldown has
\* just succeeded while the system is paused
C31_Witness ==
    /\ Completed
    /\ paused
    /\ last.caller \in Actors \ {owner}
    /\ ~isProvider[last.caller]
    /\ InCooldown(last.caller)

\* C32: when the oracle keeps delivering the honest callback of every pending
\* request, every request that was issued is eventually processed, whatever
\* calls follow the request.
C32_EveryRequestProcessed ==
    \A r \in RequestIds : Exists(r) ~> decryptionContexts[r].processed

\* the ids listed under game_keys, and the ids that have a record
IndexedGames == {parseKeys(store[gameKeys])[i] : i \in 1..Len(parseKeys(store[gameKeys]))}
WrittenGames == {id \in GameIds : Len(store[gameKey(id)]) > 0}
NoCallInFlight == \A c \in Clients : client[c].pc = "idle"
AllCallsSucceeded == \A c \in Clients : ~client[c].failed

\* C33: when every submitGameAnswer call made so far has ended and none has
\* failed, game_keys lists the id of every game whose record was written.
C33_NoGameLost ==
    (NoCallInFlight /\ AllCallsSucceeded) => WrittenGames \subseteq IndexedGames

====
